---- MODULE Spec2Model ----
(***************************************************************************)
(* Model of the BusCard component (src/components/BusCard.tsx): the        *)
(* activity window and delay estimate derived from a bus record and the    *)
(* wall clock, the badge rendered from the estimate, and the betting       *)
(* controls wired to the user store.                                       *)
(*                                                                         *)
(* Serialized timestamps are tick indices; new Date(ts).getTime() turns a  *)
(* tick into milliseconds.  JavaScript numbers are IEEE-754 doubles: the   *)
(* quotients and the product of getCurrentDelay are computed on a 53-bit   *)
(* significand with round-to-nearest-even, as the engine computes them.    *)
(***************************************************************************)
EXTENDS Integers, Sequences, FiniteSets

\* ------------------------------------------------------------------ bounds

\* Last tick of the timestamps and clocks of the calculator specification.
MaxTime == 7
\* Last tick of the timestamps and clocks of the betting specification.
UiMaxTime == 1
\* Largest balance the store starts with.
MaxBalance == 1
\* Largest magnitude the stake input delivers.
MaxStake == 1
\* Most wagers the store holds.
MaxBets == 2

\* Milliseconds between two ticks of the timestamp grid (3 min 45 s).
GridMs == 225 * 1000
\* The divisor of line 41, (1000 * 60).
MsPerMinute == 1000 * 60
\* Width of a double's significand.
MantBits == 52 + 1

\* An unset (undefined or empty) timestamp field.
Absent == -1

\* ---------------------------------------------- IEEE-754 double arithmetic

\* A double: k is "nan", "inf", "zero" or "fin"; s its sign; for a finite
\* non-zero value m is the significand, most significant bit (a 1) first, and
\* e the binary exponent of that bit: the value is s * 1.m[2]m[3]... * 2^e.
NaN == [k |-> "nan", s |-> 1, m |-> <<>>, e |-> 0]
Inf(s) == [k |-> "inf", s |-> s, m |-> <<>>, e |-> 0]
Zero == [k |-> "zero", s |-> 1, m |-> <<>>, e |-> 0]

Sign(n) == IF n < 0 THEN -1 ELSE 1
Abs(n) == IF n < 0 THEN -n ELSE n

\* The arithmetic below works on the significand eight bits at a time.
ByteBits == 8
Byte == 2 ^ ByteBits

\* bits without its leading zeros.
StripZeros(bits) ==
    LET ones == {i \in 1..Len(bits) : bits[i] = 1}
    IN IF ones = {} THEN <<>>
       ELSE SubSeq(bits, CHOOSE i \in ones : \A j \in ones : i <= j, Len(bits))

\* The number of leading zeros of bits.
LeadingZeros(bits) == Len(bits) - Len(StripZeros(bits))

\* The len low binary digits of a non-negative integer, most significant first.
FixedBits(n, len) == [i \in 1..len |-> (n \div (2 ^ (len - i))) % 2]

\* The binary digits of a non-negative integer below 2^30.
ToBits(n) == StripZeros(FixedBits(n, 30))

\* bits followed by zeros up to length len.
PadZeros(bits, len) == [i \in 1..len |-> IF i <= Len(bits) THEN bits[i] ELSE 0]

\* The i-th byte of a bit string whose length is a multiple of eight.
ByteAt(bits, i) ==
    LET o == ByteBits * (i - 1)
    IN 128 * bits[o + 1] + 64 * bits[o + 2] + 32 * bits[o + 3] + 16 * bits[o + 4]
       + 8 * bits[o + 5] + 4 * bits[o + 6] + 2 * bits[o + 7] + bits[o + 8]

\* The bit string of a sequence of bytes.
BytesToBits(bytes) ==
    [i \in 1..(ByteBits * Len(bytes)) |->
        FixedBits(bytes[((i - 1) \div ByteBits) + 1], ByteBits)[((i - 1) % ByteBits) + 1]]

\* An integer as a double (exact below 2^53).
FromInt(n) ==
    IF n = 0 THEN Zero
    ELSE LET b == ToBits(Abs(n))
         IN [k |-> "fin", s |-> Sign(n), m |-> PadZeros(b, MantBits), e |-> Len(b) - 1]

\* bits + 1; an all-ones input carries out into a longer sequence.
Increment(bits) ==
    LET zeros == {i \in 1..Len(bits) : bits[i] = 0}
    IN IF zeros = {} THEN <<1>> \o [i \in 1..Len(bits) |-> 0]
       ELSE LET p == CHOOSE i \in zeros : \A j \in zeros : j <= i
            IN [i \in 1..Len(bits) |-> IF i < p THEN bits[i] ELSE IF i = p THEN 1 ELSE 0]

AnyOne(bits) == \E i \in 1..Len(bits) : bits[i] = 1

\* Round-to-nearest, ties-to-even, of the significand bits (leading 1, at
\* least MantBits of them) followed by a sticky flag for what was cut before.
RoundNearestEven(s, bits, e, sticky) ==
    LET keep == SubSeq(bits, 1, MantBits)
        guard == IF Len(bits) > MantBits THEN bits[MantBits + 1] ELSE 0
        rest == sticky \/ AnyOne(SubSeq(bits, MantBits + 2, Len(bits)))
        up == guard = 1 /\ (rest \/ keep[MantBits] = 1)
        inc == Increment(keep)
    IN IF ~up THEN [k |-> "fin", s |-> s, m |-> keep, e |-> e]
       ELSE IF Len(inc) > MantBits
            THEN [k |-> "fin", s |-> s, m |-> SubSeq(inc, 1, MantBits), e |-> e + 1]
            ELSE [k |-> "fin", s |-> s, m |-> inc, e |-> e]

\* Bytes of the dividend: the significand and enough zeros after it for the
\* quotient to hold a full significand, a guard bit and more.
DividendBytes == 12

RECURSIVE LongDiv(_, _, _, _)
\* Long division, byte by byte, of the bit string by d < 2^22: the quotient's
\* bytes and the remainder left.
LongDiv(bits, i, r, d) ==
    IF i > Len(bits) \div ByteBits THEN [q |-> <<>>, r |-> r]
    ELSE LET t == Byte * r + ByteAt(bits, i)
             rest == LongDiv(bits, i + 1, t % d, d)
         IN [q |-> <<t \div d>> \o rest.q, r |-> rest.r]

\* x / n for a double x and an integer-valued double n (the operator /).
FDiv(x, n) ==
    IF x.k = "nan" THEN NaN
    ELSE IF x.k = "inf" THEN Inf(x.s * Sign(n))
    ELSE IF n = 0 THEN (IF x.k = "zero" THEN NaN ELSE Inf(x.s))
    ELSE IF x.k = "zero" THEN Zero
    ELSE LET d == LongDiv(PadZeros(x.m, ByteBits * DividendBytes), 1, 0, Abs(n))
             q == BytesToBits(d.q)
         IN RoundNearestEven(x.s * Sign(n), StripZeros(q), x.e - LeadingZeros(q), d.r > 0)

RECURSIVE MulBytes(_, _, _, _)
\* The bytes of (bytes 1..i of the bit string) * n + carry, for n < 2^22, the
\* first of them (the last carry) of any size.
MulBytes(bits, i, n, carry) ==
    IF i = 0 THEN <<carry>>
    ELSE LET t == ByteAt(bits, i) * n + carry
         IN MulBytes(bits, i - 1, n, t \div Byte) \o <<t % Byte>>

\* x * n for a double x and an integer-valued double n (the operator *).
FMul(x, n) ==
    IF x.k = "nan" THEN NaN
    ELSE IF x.k = "inf" THEN (IF n = 0 THEN NaN ELSE Inf(x.s * Sign(n)))
    ELSE IF x.k = "zero" \/ n = 0 THEN Zero
    ELSE LET bytes == MulBytes(<<0, 0, 0>> \o x.m, (MantBits + 3) \div ByteBits, Abs(n), 0)
             p == ToBits(Head(bytes)) \o BytesToBits(Tail(bytes))
         IN RoundNearestEven(x.s * Sign(n), p, x.e + (Len(p) - MantBits), FALSE)

\* The bit of weight 2^j of a finite double's magnitude.
BitAt(x, j) == IF j > x.e \/ j < x.e - (MantBits - 1) THEN 0 ELSE x.m[x.e - j + 1]

RECURSIVE IntPart(_, _)
\* The integer made of the bits of weight 2^j down to 2^0.
IntPart(x, j) == IF j < 0 THEN 0 ELSE BitAt(x, j) * (2 ^ j) + IntPart(x, j - 1)

\* Math.round: the nearest integer, a tie going up (towards +Infinity).  The
\* result is a JavaScript number: num (an integer), inf or nan.
MathRound(x) ==
    IF x.k = "nan" THEN [k |-> "nan", v |-> 0]
    ELSE IF x.k = "inf" THEN [k |-> "inf", v |-> x.s]
    ELSE IF x.k = "zero" THEN [k |-> "num", v |-> 0]
    ELSE LET whole == IntPart(x, x.e)
             half == BitAt(x, -1) = 1
             below == \E j \in (x.e - (MantBits - 1))..(-2) : BitAt(x, j) = 1
         IN IF x.s = 1
            THEN [k |-> "num", v |-> IF half THEN whole + 1 ELSE whole]
            ELSE [k |-> "num", v |-> IF half /\ below THEN -(whole + 1) ELSE -whole]

\* ------------------------------------------------------------- the record

\* The card's own record id, and the id of some other record of the feed.
BusId == 1
OtherBusId == 2

\* A field that JavaScript's || and ! treat as set: a non-empty string.
Truthy(ts) == ts # Absent

\* new Date(ts).getTime(): the milliseconds of a timestamp, NaN for an unset one.
GetTime(ts) == IF ts = Absent THEN [k |-> "nan", v |-> 0] ELSE [k |-> "num", v |-> ts * GridMs]

\* x <= y on JavaScript numbers: false when either is NaN.
NumLe(x, y) == x.k = "num" /\ y.k = "num" /\ x.v <= y.v

\* The records whose timestamps lie on ticks 0..maxT: scheduledArrival is set
\* and not before scheduledDeparture; either departure may be unset.
Records(maxT) ==
    {b \in [id : {BusId},
            scheduledDeparture : {Absent} \cup 0..maxT,
            expectedDeparture : {Absent} \cup 0..maxT,
            scheduledArrival : 0..maxT] :
        b.scheduledDeparture <= b.scheduledArrival}

\* ---------------------------------------------------------- the calculator

\* The null of line 31.
Null == [k |-> "null", v |-> 0]

\* Line 21.
departureTime(b) ==
    IF Truthy(b.expectedDeparture) THEN b.expectedDeparture ELSE b.scheduledDeparture

\* isActiveBus with line 27 comparing now < arrival.
isActiveBusExclusive(b, now) ==
    LET nowMs == GetTime(now)
        departure == GetTime(departureTime(b))
        arrival == GetTime(b.scheduledArrival)
    IN NumLe(departure, nowMs) /\ NumLe(nowMs, arrival) /\ nowMs # arrival

\* Lines 23-28, the clock read of line 24 being the instant `now` (a tick).
isActiveBus(b, now) ==
    LET nowMs == GetTime(now)
        departure == GetTime(departureTime(b))
        arrival == GetTime(b.scheduledArrival)
    IN NumLe(departure, nowMs) /\ NumLe(nowMs, arrival)

\* Lines 32-41, for a record with both departures set; the clock read of
\* line 32 is the instant `now` (a tick).
proportionalDelay(b, now) ==
    LET nowMs == GetTime(now).v
        currentExpected == GetTime(b.expectedDeparture).v
        currentScheduled == GetTime(b.scheduledDeparture).v
        totalJourneyTime == GetTime(b.scheduledArrival).v - GetTime(b.scheduledDeparture).v
        timeElapsed == nowMs - GetTime(b.scheduledDeparture).v
        journeyProportion == FDiv(FromInt(timeElapsed), totalJourneyTime)
        delay == currentExpected - currentScheduled
    IN MathRound(FDiv(FMul(journeyProportion, delay), MsPerMinute))

\* getCurrentDelay with line 31 testing scheduledDeparture alone: an unset
\* expectedDeparture then reaches the arithmetic as NaN.
getCurrentDelayUnguarded(b, now) ==
    IF ~Truthy(b.scheduledDeparture) THEN Null
    ELSE IF ~Truthy(b.expectedDeparture) THEN [k |-> "nan", v |-> 0]
    ELSE proportionalDelay(b, now)

\* Lines 30-42.
getCurrentDelay(b, now) ==
    IF ~Truthy(b.expectedDeparture) \/ ~Truthy(b.scheduledDeparture) THEN Null
    ELSE proportionalDelay(b, now)

\* Math.abs on the number getCurrentDelay returns.
MathAbs(d) == IF d.k = "num" THEN [d EXCEPT !.v = Abs(d.v)]
              ELSE IF d.k = "inf" THEN [d EXCEPT !.v = 1]
              ELSE d

\* d < n and d > n for a JavaScript number d and an integer n.
NumLess(d, n) == (d.k = "num" /\ d.v < n) \/ (d.k = "inf" /\ d.v = -1)
NumGreater(d, n) == (d.k = "num" /\ d.v > n) \/ (d.k = "inf" /\ d.v = 1)

\* Nothing rendered in the badge's place.
NoBadge == [kind |-> "none", mins |-> Null]

\* Lines 46-50: the badge for a delay.
delayBadge(delay) ==
    IF delay = Null THEN NoBadge
    ELSE IF NumLess(MathAbs(delay), 1) THEN [kind |-> "onTime", mins |-> Null]
    ELSE IF NumGreater(delay, 0) THEN [kind |-> "behind", mins |-> delay]
    ELSE [kind |-> "ahead", mins |-> MathAbs(delay)]

\* Lines 44-51.
renderDelay(b, now) == delayBadge(getCurrentDelay(b, now))

\* ------------------------------------------------------------ the component

\* Line 53: the unresolved wagers on this record (find returns the first).
existingBet(bs, b) == {i \in 1..Len(bs) : bs[i].busId = b.id /\ ~bs[i].resolved}

\* Line 54.
canPlaceBet(b, now, bal, bs, amt) ==
    isActiveBus(b, now) /\ existingBet(bs, b) = {} /\ bal >= amt

\* One run of the function component (lines 15-176) at instant now: what the
\* card shows and what its handlers close over; `at` keeps the instant the
\* clock reads of lines 24 and 32 returned.
Render(b, now, bal, bs, amt) ==
    [at |-> now,
     active |-> isActiveBus(b, now),
     badge |-> IF isActiveBus(b, now) THEN renderDelay(b, now) ELSE NoBadge,
     canPlaceBet |-> canPlaceBet(b, now, bal, bs, amt),
     betAmount |-> amt]

\* Number(e.target.value) of line 146 for what a number input can hold: any
\* number typed, and 0 for an empty field.
StakeInputs == (-MaxStake)..MaxStake

Predictions == {"early", "late"}

VARIABLES
    bus,        \* the bus prop
    clock,      \* the wall clock, in ticks
    balance,    \* the store's balance
    bets,       \* the store's wagers
    betAmount,  \* the useState of line 19
    view,       \* the last render
    toasts      \* notifications sent

vars == <<bus, clock, balance, bets, betAmount, view, toasts>>

\* The wager placeBet adds for the argument of lines 59-64.
NewBet(b, amt, prediction) ==
    [busId |-> b.id, amount |-> amt, prediction |-> prediction, resolved |-> FALSE]

\* The store's placeBet (src holds only its call): the wager joins the store's
\* wagers, unresolved.
placeBet(bs, bet) == Append(bs, bet)

\* The card mounted on a record of the feed, useState(1) of line 19.
InitOn(maxT) ==
    /\ bus \in Records(maxT)
    /\ clock \in 0..maxT
    /\ balance \in 0..MaxBalance
    /\ bets \in {<<>>, <<[busId |-> OtherBusId, amount |-> 1, prediction |-> "late", resolved |-> FALSE]>>}
    /\ betAmount = 1
    /\ view = Render(bus, clock, balance, bets, betAmount)
    /\ toasts = 0

Init == InitOn(UiMaxTime)

InitCalc == InitOn(MaxTime) /\ balance = MaxBalance /\ bets = <<>>

\* Time passes; nothing re-renders the card.
Tick(maxT) ==
    /\ clock <= maxT
    /\ clock' = clock + 1
    /\ UNCHANGED <<bus, balance, bets, betAmount, view, toasts>>

TickUi == Tick(UiMaxTime)

TickCalc == Tick(MaxTime)

\* The parent renders the card again with the same props.
Rerender ==
    /\ view' = Render(bus, clock, balance, bets, betAmount)
    /\ UNCHANGED <<bus, clock, balance, bets, betAmount, toasts>>

\* The feed revises the record's expected departure; the new prop renders
\* the card.
BusUpdate(e) ==
    /\ e # bus.expectedDeparture
    /\ bus' = [bus EXCEPT !.expectedDeparture = e]
    /\ view' = Render(bus', clock, balance, bets, betAmount)
    /\ UNCHANGED <<clock, balance, bets, betAmount, toasts>>

\* Line 146: the stake input changes; the state change renders the card.
SetBetAmount(v) ==
    /\ view.active
    /\ betAmount' = v
    /\ view' = Render(bus, clock, balance, bets, v)
    /\ UNCHANGED <<bus, clock, balance, bets, toasts>>

\* Lines 56-70, from a click on Bet Early or Bet Late (lines 150, 158): the
\* handler of the last render; the store change renders the card.
handlePlaceBet(prediction) ==
    /\ view.active
    /\ Len(bets) < MaxBets
    /\ IF ~view.canPlaceBet
       THEN UNCHANGED <<bets, toasts, view>>
       ELSE /\ bets' = placeBet(bets, NewBet(bus, view.betAmount, prediction))
            /\ toasts' = toasts + 1
            /\ view' = Render(bus, clock, balance, bets', betAmount)
    /\ UNCHANGED <<bus, clock, balance, betAmount>>

\* The store resolves a wager once the outcome is known (src holds only the
\* resolved flag's read, line 53); the store change renders the card.
ResolveBet(i) ==
    /\ ~bets[i].resolved
    /\ bets' = [bets EXCEPT ![i].resolved = TRUE]
    /\ view' = Render(bus, clock, balance, bets', betAmount)
    /\ UNCHANGED <<bus, clock, balance, betAmount, toasts>>

Next ==
    \/ TickUi
    \/ Rerender
    \/ \E e \in {Absent} \cup 0..UiMaxTime : BusUpdate(e)
    \/ \E v \in StakeInputs : SetBetAmount(v)
    \/ \E p \in Predictions : handlePlaceBet(p)
    \/ \E i \in 1..Len(bets) : ResolveBet(i)

Spec == Init /\ [][Next]_vars

NextCalc ==
    \/ TickCalc
    \/ Rerender
    \/ \E e \in {Absent} \cup 0..MaxTime : BusUpdate(e)

SpecCalc == InitCalc /\ [][NextCalc]_vars

\* -------------------------------------------------------------- properties

BothDepartures(b) == b.expectedDeparture # Absent /\ b.scheduledDeparture # Absent

\* The activity window in ticks: effective departure <= t <= scheduled arrival.
InWindow(b, t) ==
    LET effectiveDeparture ==
            IF b.expectedDeparture # Absent THEN b.expectedDeparture ELSE b.scheduledDeparture
    IN effectiveDeparture # Absent /\ effectiveDeparture <= t /\ t <= b.scheduledArrival

\* C1: isActiveBus is true exactly when effectiveDeparture <= now <=
\* scheduledArrival, both ends included, effectiveDeparture being
\* expectedDeparture when set and scheduledDeparture otherwise: for the
\* instant of the last render and for the present instant.
C1_ActiveIffInWindow ==
    /\ view.active = InWindow(bus, view.at)
    /\ isActiveBus(bus, clock) = InWindow(bus, clock)

\* C1's case: rendered active at the very instant of scheduledArrival, from
\* an expectedDeparture that differs from scheduledDeparture.
C1_Witness ==
    /\ view.active
    /\ view.at = bus.scheduledArrival
    /\ BothDepartures(bus)
    /\ bus.expectedDeparture # bus.scheduledDeparture

\* C2: with both departures set and scheduledDeparture = scheduledArrival,
\* the delay a render computes is absent (never NaN or Infinity).
C2_DegenerateIsAbsent ==
    (view.active /\ BothDepartures(bus) /\ bus.scheduledDeparture = bus.scheduledArrival)
        => getCurrentDelay(bus, view.at) = Null

\* C3: with expectedDeparture or scheduledDeparture unset, getCurrentDelay is
\* null at every instant and the card shows no delay badge.
C3_AbsentWhenDepartureUnset ==
    ~BothDepartures(bus) =>
        /\ getCurrentDelay(bus, clock) = Null
        /\ getCurrentDelay(bus, view.at) = Null
        /\ view.badge = NoBadge

\* C3's case: an active card, so renderDelay ran, on a record without
\* expectedDeparture.
C3_Witness ==
    /\ view.active
    /\ bus.expectedDeparture = Absent
    /\ view.badge = NoBadge

\* round(rawDelay * elapsed / totalJourney) in whole minutes, a tie going up,
\* in exact arithmetic on ticks.
ExactDelayMinutes(b, t) ==
    LET rawDelay == b.expectedDeparture - b.scheduledDeparture
        elapsed == t - b.scheduledDeparture
        totalJourney == b.scheduledArrival - b.scheduledDeparture
    IN (2 * rawDelay * elapsed * GridMs + totalJourney * MsPerMinute)
           \div (2 * totalJourney * MsPerMinute)

\* C4: with both departures set and scheduledArrival > scheduledDeparture,
\* getCurrentDelay at any instant is round((expectedDeparture -
\* scheduledDeparture) * (now - scheduledDeparture) / (scheduledArrival -
\* scheduledDeparture)) in whole minutes.
C4_DelayIsProportionalRound ==
    (BothDepartures(bus) /\ bus.scheduledArrival > bus.scheduledDeparture)
        => getCurrentDelay(bus, clock) = [k |-> "num", v |-> ExactDelayMinutes(bus, clock)]

\* The one outcome the presentation mapping gives a delay value, "unclassified"
\* for a value none of its four cases covers.
Classified(d) ==
    IF d = Null THEN "none"
    ELSE IF d.k = "num" /\ d.v = 0 THEN "onTime"
    ELSE IF (d.k = "num" /\ d.v > 0) \/ (d.k = "inf" /\ d.v = 1) THEN "behind"
    ELSE IF (d.k = "num" /\ d.v < 0) \/ (d.k = "inf" /\ d.v = -1) THEN "ahead"
    ELSE "unclassified"

\* C5: the badge rendered is a function of the delay alone: none for absent,
\* on time for 0, behind by the delay for a positive one, ahead by its
\* magnitude for a negative one, and every delay falls in one of the four.
C5_BadgeClassifiesDelay ==
    view.active =>
        LET d == getCurrentDelay(bus, view.at)
        IN /\ view.badge.kind = Classified(d)
           /\ view.badge.kind = "behind" => view.badge.mins = d
           /\ view.badge.kind = "ahead" => view.badge.mins = MathAbs(d)

\* A step that hands a wager to placeBet or notifies.
BetPlaced == Len(bets') > Len(bets) \/ toasts' # toasts

\* C6: a click places a wager (and notifies) only when the record is active,
\* the store holds no unresolved wager on it and balance >= stake; otherwise
\* it calls neither and the store is unchanged.
C6_BetOnlyWhenEligible ==
    [][BetPlaced =>
        /\ InWindow(bus, clock)
        /\ \A i \in 1..Len(bets) : bets[i].busId = bus.id => bets[i].resolved
        /\ balance >= betAmount]_vars

\* C7: isActiveBus and getCurrentDelay depend on the record alone: as long as
\* the record is the same, a later render gives the same results.
C7_ResultDependsOnRecordOnly ==
    [][bus' = bus => (view'.active = view.active /\ view'.badge = view.badge)]_vars

\* C8: on an active card with scheduledArrival > scheduledDeparture, a positive
\* delay occurs only when expectedDeparture is later than scheduledDeparture
\* and a negative one only when it is earlier.
C8_SignMatchesSchedule ==
    (view.active /\ BothDepartures(bus) /\ bus.scheduledArrival > bus.scheduledDeparture)
        => LET d == getCurrentDelay(bus, view.at)
           IN /\ Classified(d) = "behind" => bus.expectedDeparture > bus.scheduledDeparture
              /\ Classified(d) = "ahead" => bus.expectedDeparture < bus.scheduledDeparture

\* C9: every wager handed to placeBet has an amount of at least 1 and at most
\* the balance.
C9_StakeWithinBounds ==
    [][Len(bets') > Len(bets) =>
        /\ bets'[Len(bets')].amount >= 1
        /\ bets'[Len(bets')].amount <= balance]_vars

\* The store holds at most one unresolved wager on the card's record.
AtMostOneUnresolved == Cardinality(existingBet(bets, bus)) <= 1

\* C10: the store never holds more than one unresolved wager on the record,
\* and no wager is placed at an instant after scheduledArrival.
C10_OneWagerInsideWindow ==
    [][/\ AtMostOneUnresolved'
       /\ Len(bets') > Len(bets) => clock <= bus.scheduledArrival]_vars

====
